---- MODULE Spec2Model ----
(***************************************************************************)
(* DigitalPhotoFrame (src/main.py): the setup window (MainWindow), the     *)
(* full-screen slideshow (SlideshowWindow) with its repeating QTimer, and  *)
(* the cached EXIF / reverse-geocoding lookup (extract_metadata).          *)
(*                                                                         *)
(* Conventions of the model                                                *)
(*  - A Python str is a sequence of tokens (<<>> is ''), so that split,    *)
(*    replace and join are computed, not assumed.                          *)
(*  - An image path is a number 1..NumPaths; what the file holds is        *)
(*    FileAt(path).                                                        *)
(*  - A float produced by _convert is the exact fraction <<num, den>> in   *)
(*    lowest terms with den > 0 (rounding is not modelled).                *)
(*  - Time advances in whole seconds (Tock); QTimer works in milliseconds. *)
(***************************************************************************)
EXTENDS Integers, Sequences, FiniteSets, TLC

(* ------------------------------ bounds --------------------------------- *)
\* number of image files that exist on disk
NumPaths == 3
\* largest value (seconds) chosen in the interval spin box
MaxInterval == 2
MaxQueue == 2

(* -------------------------- program constants -------------------------- *)
MsPerSecond == 1000
SecondsPerDegreeMinute == 60
SecondsPerDegree == 3600

\* QLabel without a pixmap (paths are 1..NumPaths)
NoPixmap == 0
\* Python's None where a float is expected, and a present float
NoFloat == [some |-> FALSE, val |-> <<0, 1>>]
Float(frac) == [some |-> TRUE, val |-> frac]
\* no geocoder query made / no value returned
Nothing == <<>>

(* --------------------------- str operations ---------------------------- *)
RECURSIVE SplitFirst(_, _)
\* s.split(sep)[0] for a one-token separator: the part before the first sep
SplitFirst(s, sep) ==
  IF s = <<>> \/ Head(s) = sep THEN <<>>
  ELSE <<Head(s)>> \o SplitFirst(Tail(s), sep)

\* s.replace(old, new) for one-token old and new
Replace(s, old, new) == [i \in 1..Len(s) |-> IF s[i] = old THEN new ELSE s[i]]

\* filter(None, parts): the non-empty strings of parts, in order
FilterNone(parts) == SelectSeq(parts, LAMBDA p : p # <<>>)

RECURSIVE Join(_, _)
\* sep.join(parts)
Join(sep, parts) ==
  IF parts = <<>> THEN <<>>
  ELSE IF Len(parts) = 1 THEN parts[1]
  ELSE parts[1] \o sep \o Join(sep, Tail(parts))

CommaSpace == <<", ">>
BarSep == <<" | ">>

(* ------------------------------ _convert ------------------------------- *)
Abs(n) == IF n < 0 THEN 0 - n ELSE n

RECURSIVE GCD(_, _)
GCD(a, b) == IF b = 0 THEN a ELSE GCD(b, a % b)

\* the fraction n/d (d # 0) in lowest terms with a positive denominator
Frac(n, d) ==
  LET g == GCD(Abs(n), Abs(d))
      s == IF d < 0 THEN 0 - 1 ELSE 1
  IN  <<(s * n) \div g, (s * d) \div g>>

\* faulty variant: the hemisphere is ignored
ConvertUnsigned(coord, ref) ==
  IF coord[1][2] = 0 \/ coord[2][2] = 0 \/ coord[3][2] = 0
  THEN [exc |-> TRUE, val |-> NoFloat]
  ELSE [exc |-> FALSE,
        val |-> Float(Frac(coord[1][1] * coord[2][2] * coord[3][2]
                             * SecondsPerDegree
                           + coord[2][1] * coord[1][2] * coord[3][2]
                             * SecondsPerDegreeMinute
                           + coord[3][1] * coord[1][2] * coord[2][2],
                           coord[1][2] * coord[2][2] * coord[3][2]
                             * SecondsPerDegree))]
\* _convert(coord, ref): coord = <<d, m, s>>, each a rational <<num, den>>.
\* A zero denominator raises ZeroDivisionError.
Convert(coord, ref) ==
  LET d == coord[1]
      m == coord[2]
      s == coord[3]
  IN  IF d[2] = 0 \/ m[2] = 0 \/ s[2] = 0
      THEN [exc |-> TRUE, val |-> NoFloat]
      ELSE LET num == d[1] * m[2] * s[2] * SecondsPerDegree
                      + m[1] * d[2] * s[2] * SecondsPerDegreeMinute
                      + s[1] * d[2] * m[2]
               den == d[2] * m[2] * s[2] * SecondsPerDegree
               dec == Frac(num, den)
           IN  [exc |-> FALSE,
                val |-> IF ref \in {"S", "W"} THEN Float(<<0 - dec[1], dec[2]>>)
                        ELSE Float(dec)]

\* truth value of a float-or-None
Truthy(x) == x.some /\ x.val[1] # 0


(* ------------------------- files and geocoder -------------------------- *)
\* "2021:06:01 12:30:00", the EXIF DateTimeOriginal layout
DateChars ==
  <<"2","0","2","1",":","0","6",":","0","1"," ","1","2",":","3","0",":","0","0">>
\* tag values: a str, or bytes (on which .split(' ') raises TypeError)
Str(s) == [type |-> "str", val |-> s]
BytesValue == [type |-> "bytes", val |-> <<>>]
\* a DateTimeOriginal str that is not a date
GarbledTag == <<"n","/","a">>

DateTag == Str(DateChars)
Rat(n) == <<n, 1>>
\* 48 deg 51' 30" and 2 deg 21' 0"
LatDMS == <<Rat(48), Rat(51), Rat(30)>>
LonDMS == <<Rat(2), Rat(21), Rat(0)>>
ZeroDMS == <<Rat(0), Rat(0), Rat(0)>>
BadDMS == <<Rat(48), <<51, 0>>, Rat(30)>>

\* GPSInfo dictionaries: 1 GPSLatitudeRef, 2 GPSLatitude, 3 GPSLongitudeRef,
\* 4 GPSLongitude
GpsFull == (1 :> "N") @@ (2 :> LatDMS) @@ (3 :> "E") @@ (4 :> LonDMS)
GpsSouthWest == (1 :> "S") @@ (2 :> LatDMS) @@ (3 :> "W") @@ (4 :> LonDMS)
GpsNoLonRef == (1 :> "N") @@ (2 :> LatDMS) @@ (4 :> LonDMS)
GpsZeroDen == (1 :> "N") @@ (2 :> BadDMS) @@ (3 :> "E") @@ (4 :> LonDMS)
GpsEquator == (1 :> "N") @@ (2 :> ZeroDMS) @@ (3 :> "E") @@ (4 :> LonDMS)
GpsMeridian == (1 :> "N") @@ (2 :> LatDMS) @@ (3 :> "E") @@ (4 :> ZeroDMS)
\* 40 deg 0' 0" and 0 deg 30' 0", north-east and south-west
GpsWhole ==
  (1 :> "N") @@ (2 :> <<Rat(40), Rat(0), Rat(0)>>)
  @@ (3 :> "E") @@ (4 :> <<Rat(0), Rat(30), Rat(0)>>)
GpsWholeSouthWest ==
  (1 :> "S") @@ (2 :> <<Rat(40), Rat(0), Rat(0)>>)
  @@ (3 :> "W") @@ (4 :> <<Rat(0), Rat(30), Rat(0)>>)
\* 48 deg 51.5' and 2 deg 21' 7.25": fractions with denominators 2 and 4
GpsDecimalMinutes ==
  (1 :> "N") @@ (2 :> <<Rat(48), <<103, 2>>, Rat(0)>>)
  @@ (3 :> "W") @@ (4 :> <<Rat(2), Rat(21), <<29, 4>>>>)

\* What is on disk: whether QPixmap decodes it, whether PIL opens it, and the
\* value of img._getexif(): None (no EXIF block) or a dictionary, given here
\* with the tag ids already mapped to names
NoExif == [none |-> TRUE, tags |-> <<>>]
Exif(tags) == [none |-> FALSE, tags |-> tags]
File(pixmap_ok, open_ok, exif) ==
  [pixmap_ok |-> pixmap_ok, open_ok |-> open_ok, exif |-> exif]

DateAndGps(date, gps) == Exif(("DateTimeOriginal" :> date) @@ ("GPSInfo" :> gps))
DateOnly(date) == Exif(("DateTimeOriginal" :> date))
GpsOnly(gps) == Exif(("GPSInfo" :> gps))

GeotaggedPhoto == File(TRUE, TRUE, DateAndGps(DateTag, GpsFull))
CorruptFile == File(FALSE, FALSE, NoExif)
PlainImage == File(TRUE, TRUE, NoExif)
DatedPhoto == File(TRUE, TRUE, DateOnly(DateTag))

\* the image files on disk, by path: every shape of file the try block
\* distinguishes.  The scanned tree holds the first NumPaths of them.
Disk ==
  << GeotaggedPhoto, CorruptFile, PlainImage, DatedPhoto,
     File(TRUE, FALSE, NoExif),
     File(FALSE, TRUE, DateOnly(DateTag)),
     File(TRUE, TRUE, Exif(<<>>)),
     File(TRUE, TRUE, DateOnly(BytesValue)),
     File(TRUE, TRUE, DateOnly(Str(GarbledTag))),
     File(TRUE, TRUE, DateAndGps(BytesValue, GpsFull)),
     File(TRUE, TRUE, DateAndGps(Str(GarbledTag), GpsFull)),
     File(TRUE, TRUE, GpsOnly(GpsFull)),
     File(TRUE, TRUE, DateAndGps(DateTag, GpsSouthWest)),
     File(TRUE, TRUE, DateAndGps(DateTag, GpsNoLonRef)),
     File(TRUE, TRUE, DateAndGps(DateTag, GpsZeroDen)),
     File(TRUE, TRUE, DateAndGps(DateTag, GpsEquator)),
     File(TRUE, TRUE, DateAndGps(DateTag, <<>>)),
     File(TRUE, TRUE, GpsOnly(GpsWhole)),
     File(TRUE, TRUE, GpsOnly(GpsWholeSouthWest)),
     File(TRUE, TRUE, GpsOnly(GpsDecimalMinutes)),
     File(TRUE, TRUE, DateAndGps(DateTag, GpsMeridian)) >>

DiskPaths == 1..Len(Disk)
FileAt(path) == Disk[path]

\* Outcomes of geolocator.reverse(...): it raises (network error, timeout),
\* returns None (no result), or returns a location whose raw dictionary may
\* hold an 'address' dictionary
GeoRaise == [kind |-> "raise"]
GeoNone == [kind |-> "none"]
GeoLoc(raw) == [kind |-> "loc", raw |-> raw]
Address(a) == ("address" :> a)

Paris == <<"Paris">>
Giverny == <<"Giverny">>
France == <<"France">>

ParisFrance == GeoLoc(Address(("city" :> Paris) @@ ("country" :> France)))

\* the geocoder was not called
Uncalled == [kind |-> "uncalled"]

\* the outcomes the geocoder produces during a slideshow
GeoOutcomes == { GeoRaise, GeoNone, ParisFrance }

\* every shape of outcome lines 60-65 distinguish
AllGeoOutcomes ==
  GeoOutcomes \cup
  { GeoLoc(<<>>),
    GeoLoc(Address(<<>>)),
    GeoLoc(Address(("country" :> France))),
    GeoLoc(Address(("city" :> Paris))),
    GeoLoc(Address(("town" :> Giverny) @@ ("country" :> France))),
    GeoLoc(Address(("village" :> Giverny) @@ ("country" :> France))),
    GeoLoc(Address(("city" :> <<>>) @@ ("town" :> Giverny)
                    @@ ("village" :> Paris) @@ ("country" :> France))),
    GeoLoc(Address(("city" :> Paris) @@ ("town" :> Giverny)
                    @@ ("country" :> <<>>))) }

(* -------------------------- extract_metadata --------------------------- *)
\* dict.get(key, default).  Where the code's default is None and the value
\* is only tested for truth, the default is given as '' (both are false).
Get(dict, key, default) == IF key \in DOMAIN dict THEN dict[key] ELSE default

\* Python's  a or b  on strings
Or(a, b) == IF a # <<>> THEN a ELSE b

\* faulty variant: town and village are not looked at
LocationOfCityOnly(addr) ==
  Join(CommaSpace,
       FilterNone(<<Get(addr, "city", <<>>), Get(addr, "country", <<>>)>>))
\* lines 62-65: the location string of an address dictionary
LocationOf(addr) ==
  LET city == Or(Or(Or(Get(addr, "city", <<>>), Get(addr, "town", <<>>)),
                    Get(addr, "village", <<>>)), <<>>)
      country == Get(addr, "country", <<>>)
  IN  Join(CommaSpace, FilterNone(<<city, country>>))

\* result of the try block: whether an exception left it, the two strings as
\* assigned so far, and the (lat, lon) geolocator.reverse was called with
Outcome(exc, date_str, location_str, query) ==
  [exc |-> exc, date_str |-> date_str, location_str |-> location_str,
   query |-> query]

\* lines 58-65: with both conversions done and neither having raised
Reverse(lat, lon, geo, date_str) ==
  IF ~(Truthy(lat) /\ Truthy(lon)) THEN Outcome(FALSE, date_str, <<>>, Nothing)
  ELSE IF geo.kind = "raise"
  THEN Outcome(TRUE, date_str, <<>>, <<lat.val, lon.val>>)
  ELSE IF geo.kind = "none" \/ "address" \notin DOMAIN geo.raw
  THEN Outcome(FALSE, date_str, <<>>, <<lat.val, lon.val>>)
  ELSE Outcome(FALSE, date_str, LocationOf(geo.raw["address"]),
               <<lat.val, lon.val>>)

\* lines 55-56: a conversion that raises leaves the try block
Converted(latC, lonC, geo, date_str) ==
  IF latC.exc \/ lonC.exc THEN Outcome(TRUE, date_str, <<>>, Nothing)
  ELSE Reverse(latC.val, lonC.val, geo, date_str)

NotConverted == [exc |-> FALSE, val |-> NoFloat]

\* lines 47-65: the GPS branch, entered with date_str already assigned
GpsInfo(gps, geo, date_str) ==
  Converted(IF 1 \in DOMAIN gps /\ 2 \in DOMAIN gps
            THEN Convert(gps[2], gps[1]) ELSE NotConverted,
            IF 3 \in DOMAIN gps /\ 4 \in DOMAIN gps
            THEN Convert(gps[4], gps[3]) ELSE NotConverted,
            geo, date_str)

GpsStep(exif, geo, date_str) ==
  IF "GPSInfo" \notin DOMAIN exif THEN Outcome(FALSE, date_str, <<>>, Nothing)
  ELSE GpsInfo(exif["GPSInfo"], geo, date_str)

\* lines 43-44: the date branch
DateStep(exif, geo) ==
  IF "DateTimeOriginal" \in DOMAIN exif
  THEN IF exif["DateTimeOriginal"].type # "str"
       THEN Outcome(TRUE, <<>>, <<>>, Nothing)
       ELSE GpsStep(exif, geo,
                    Replace(SplitFirst(exif["DateTimeOriginal"].val, " "),
                            ":", "-"))
  ELSE GpsStep(exif, geo, <<>>)

\* lines 37-65: the body of the try statement
TryBody(file, geo) ==
  IF ~file.open_ok THEN Outcome(TRUE, <<>>, <<>>, Nothing)
  ELSE DateStep(IF file.exif.none THEN <<>> ELSE file.exif.tags, geo)

\* faulty variants: a handler that lets the exception through, and one that
\* also drops the date already assigned
ExceptReraise(out) == out
ExceptReset(out) == [out EXCEPT !.exc = FALSE, !.date_str = <<>>]
\* lines 66-67: except Exception: pass.  What is left of an Outcome once the
\* handler has run
ExceptPass(out) == [out EXCEPT !.exc = FALSE]

\* faulty variant: the record is returned but not stored
StoreNothing(image_path, cache, out) ==
  [cache |-> cache, ret |-> <<out.date_str, out.location_str>>,
   raised |-> out.exc, computed |-> TRUE, query |-> out.query]
\* lines 69-70, reached unless an exception is still propagating
Store(image_path, cache, out) ==
  IF out.exc
  THEN [cache |-> cache, ret |-> Nothing, raised |-> TRUE,
        computed |-> TRUE, query |-> out.query]
  ELSE [cache |-> (image_path :> <<out.date_str, out.location_str>>) @@ cache,
        ret |-> <<out.date_str, out.location_str>>,
        raised |-> FALSE, computed |-> TRUE, query |-> out.query]

\* faulty variant: a cached record without a location is extracted again
extract_metadata_retry(file, image_path, geo, cache) ==
  IF image_path \in DOMAIN cache /\ cache[image_path][2] # <<>>
  THEN [cache |-> cache, ret |-> cache[image_path], raised |-> FALSE,
        computed |-> FALSE, query |-> Nothing]
  ELSE [cache |-> (image_path :> <<TryBody(file, geo).date_str,
                                    TryBody(file, geo).location_str>>) @@ cache,
        ret |-> <<TryBody(file, geo).date_str, TryBody(file, geo).location_str>>,
        raised |-> FALSE, computed |-> TRUE, query |-> TryBody(file, geo).query]
\* extract_metadata(image_path, geolocator, cache) with the file found at
\* image_path and the answer the geocoder would give.  Yields the new cache,
\* the returned tuple, whether an exception reached the caller, whether the
\* extraction work was done (cache miss) and the geocoder query made.
extract_metadata(file, image_path, geo, cache) ==
  IF image_path \in DOMAIN cache
  THEN [cache |-> cache, ret |-> cache[image_path], raised |-> FALSE,
        computed |-> FALSE, query |-> Nothing]
  ELSE Store(image_path, cache, ExceptPass(TryBody(file, geo)))

(* ------------------------------- state --------------------------------- *)
VARIABLES
  image_list,      \* MainWindow.image_list
  main_visible,    \* whether the setup window is shown
  slideshow,       \* MainWindow.slideshow: "none", "active", or "closed"
                   \* (closed, awaiting the deletion WA_DeleteOnClose asks for)
  images,          \* SlideshowWindow.images
  interval_ms,     \* SlideshowWindow.interval_ms
  current_index,   \* SlideshowWindow.current_index (0-based)
  metadata_cache,  \* SlideshowWindow.metadata_cache: path -> (date, location)
  label,           \* path whose pixmap self.label shows, or NoPixmap
  info_label,      \* text of self.info_label
  timer_active,    \* self.timer.isActive()
  timer_remaining, \* ms until self.timer next times out
  error,           \* exception that left an event handler, or "none"
  last_event,      \* history: the event handled last
  fired,           \* history: the methods that event's handler invoked
  index_before,    \* history: current_index when that event arrived
  since_mutation,  \* history: seconds since current_index was last assigned
  extract_log,     \* history: per path, the extractions done this session
  last_call,       \* history: the last extract_metadata call of show_image
  trail,           \* history: the cursor after each of the last assignments
  queue,           \* events the event loop has received and not yet dispatched
  stack            \* the handlers in progress, innermost last

window_vars ==
  <<images, interval_ms, current_index, metadata_cache, label, info_label,
    timer_active, timer_remaining>>
history_vars ==
  <<last_event, fired, index_before, since_mutation, extract_log, last_call>>
\* used only where the event loop or the sequence of cursor values is observed
loop_vars == <<trail, queue, stack>>
vars ==
  <<image_list, main_visible, slideshow, window_vars, error, history_vars,
    loop_vars>>

Paths == 1..NumPaths
\* folder k of the tree holds the files 1..k (folder 0 holds no image)
Folders == 0..NumPaths
\* scan_images(folder): the image files under it, in walk order
scan_images(folder) == [i \in 1..folder |-> i]

\* random.shuffle: every ordering of the list
Shuffles(list) ==
  { s \in [1..Len(list) -> {list[i] : i \in 1..Len(list)}] :
      \A i, j \in 1..Len(list) : i # j => s[i] # s[j] }

Intervals == 1..MaxInterval
Keys == {"Key_Right", "Key_Left", "Key_Escape", "Key_Space"}

NoCall == [path |-> NoPixmap, geo |-> Uncalled, ret |-> Nothing,
           raised |-> FALSE, computed |-> FALSE, query |-> Nothing]
EmptyLog == [p \in DiskPaths |-> <<>>]

(* ----------------------------- show_image ------------------------------ *)
\* faulty variant: the separator is always written
InfoTextUnfiltered(rec) == Join(BarSep, <<rec[1], rec[2]>>)
\* line 134: the text of the info label for a (date, location) pair
InfoText(rec) == Join(BarSep, FilterNone(<<rec[1], rec[2]>>))

\* list[i] with Python's 0-based and negative indices; out of range raises
\* IndexError
InRange(list, i) == 0 - Len(list) <= i /\ i < Len(list)
Item(list, i) == IF i >= 0 THEN list[i + 1] ELSE list[Len(list) + i + 1]

\* the extract_metadata call as the history records it
Call(path, geo, r) ==
  [path |-> path, geo |-> IF r.query = Nothing THEN Uncalled ELSE geo,
   ret |-> r.ret, raised |-> r.raised, computed |-> r.computed,
   query |-> r.query]

Kept(lbl, info, cache) ==
  [label |-> lbl, info |-> info, cache |-> cache, shown |-> FALSE,
   raised |-> FALSE, call |-> NoCall]

\* faulty variant: the pixmap is set but the text is left as it was
DisplayStaleText(path, info, geo, r) ==
  [label |-> path, info |-> info, cache |-> r.cache, shown |-> TRUE,
   raised |-> r.raised, call |-> Call(path, geo, r)]
\* lines 130-135: the pixmap is set, then the metadata is looked up and the
\* text set
Display(path, info, geo, r) ==
  IF r.raised
  THEN [label |-> path, info |-> info, cache |-> r.cache, shown |-> FALSE,
        raised |-> TRUE, call |-> Call(path, geo, r)]
  ELSE [label |-> path, info |-> InfoText(r.ret), cache |-> r.cache,
        shown |-> TRUE, raised |-> FALSE, call |-> Call(path, geo, r)]

\* lines 118-135, for the path at the current index
ShowPath(path, cache, lbl, info, geo) ==
  IF ~FileAt(path).pixmap_ok THEN Kept(lbl, info, cache)
  ELSE Display(path, info, geo,
               extract_metadata(FileAt(path), path, geo, cache))

\* show_image() on the given window state, with the answer the geocoder
\* would give.  shown: whether the pixmap and text were set (a display was
\* delivered); raised: whether an exception left show_image.
show_image(imgs, idx, cache, lbl, info, geo) ==
  IF imgs = <<>> THEN Kept(lbl, info, cache)
  ELSE IF ~InRange(imgs, idx)
  THEN [Kept(lbl, info, cache) EXCEPT !.raised = TRUE]
  ELSE ShowPath(Item(imgs, idx), cache, lbl, info, geo)

\* history: one extraction, with what the geocoder did if it was called
LogEntry(call) == [ret |-> call.ret, query |-> call.query, geo |-> call.geo]

\* the state left by a show_image call that yields done, and the extraction
\* history
Shown(done) ==
  \E d \in {done} :
    /\ label' = d.label
    /\ info_label' = d.info
    /\ metadata_cache' = d.cache
    /\ last_call' = d.call
    /\ extract_log' =
         IF d.call.computed
         THEN [extract_log EXCEPT ![d.call.path] = Append(@, LogEntry(d.call))]
         ELSE extract_log
    /\ error' = IF d.raised THEN "Exception" ELSE error

(* --------------------------- SlideshowWindow --------------------------- *)
\* lines 74-113: the constructor
SlideshowWindow(imgs, interval) ==
  /\ images' = imgs
  /\ interval_ms' = interval * MsPerSecond
  /\ current_index' = 0
  /\ timer_active' = TRUE
  /\ timer_remaining' = interval * MsPerSecond
  /\ \E geo \in GeoOutcomes :
       Shown(show_image(imgs, 0, <<>>, NoPixmap, <<>>, geo))
  /\ last_event' = "start"
  /\ fired' = <<"show_image">>
  /\ index_before' = 0
  /\ since_mutation' = 0
  /\ slideshow' = "active"

\* faulty variant: the cursor stops at the last index
NextIndexClamped(idx, n) == IF idx + 1 = n THEN idx ELSE idx + 1
\* line 138: the new index
NextIndex(idx, n) == (idx + 1) % n
\* faulty variants: no wrap-around, and a cursor that stops at index 0
PrevIndexNoWrap(idx, n) == idx - 1
PrevIndexClamped(idx, n) == IF idx = 0 THEN 0 ELSE idx - 1
\* line 142: the new index
PrevIndex(idx, n) == (idx - 1) % n

\* show_next_image / show_prev_image: the division raises ZeroDivisionError
\* on an empty list, before anything is assigned
Advance(newIndex) ==
  IF Len(images) = 0
  THEN /\ error' = "ZeroDivisionError"
       /\ UNCHANGED <<current_index, metadata_cache, label, info_label,
                      since_mutation, extract_log, last_call>>
  ELSE /\ current_index' = newIndex
       /\ since_mutation' = 0
       /\ \E geo \in GeoOutcomes :
            Shown(show_image(images, newIndex, metadata_cache, label,
                             info_label, geo))

show_next_image == Advance(NextIndex(current_index, Len(images)))
show_prev_image == Advance(PrevIndex(current_index, Len(images)))

\* faulty variant: the timer is left running
closeEventNoStop(active) == active
\* lines 157-160: closeEvent stops the timer; whether the timer still runs
\* after it
closeEvent(active) == FALSE

\* self.close(): the window is closed and will be deleted
close ==
  /\ timer_active' = closeEvent(timer_active)
  /\ slideshow' = "closed"
  /\ UNCHANGED <<current_index, metadata_cache, label, info_label,
                 since_mutation, extract_log, last_call, error>>

\* faulty variant: only Key_Escape closes
keyPressEventEscapeOnly(key) ==
  IF key = "Key_Right" THEN "show_next_image"
  ELSE IF key = "Key_Escape" THEN "close"
  ELSE "show_prev_image"
\* lines 145-152: the method keyPressEvent calls for a key
keyPressEvent(key) ==
  IF key = "Key_Right" THEN "show_next_image"
  ELSE IF key = "Key_Left" THEN "show_prev_image"
  ELSE "close"

\* lines 154-155
mousePressEvent == "close"

Run(method) ==
  /\ fired' = <<method>>
  /\ CASE method = "show_next_image" ->
            show_next_image /\ UNCHANGED <<timer_active, slideshow>>
       [] method = "show_prev_image" ->
            show_prev_image /\ UNCHANGED <<timer_active, slideshow>>
       [] OTHER -> close

\* keyPressEvent run to its end for one key
KeyPressed(key) ==
  /\ slideshow = "active" /\ error = "none"
  /\ last_event' = key
  /\ Run(keyPressEvent(key))
  /\ index_before' = current_index
  /\ UNCHANGED <<image_list, main_visible, images, interval_ms, timer_remaining>>

\* a key press delivered to the slideshow window
KeyPress ==
  /\ \E key \in Keys : KeyPressed(key)
  /\ UNCHANGED loop_vars

\* a pointer press delivered to the slideshow window
MousePress ==
  /\ slideshow = "active" /\ error = "none"
  /\ last_event' = "mouse"
  /\ Run(mousePressEvent)
  /\ index_before' = current_index
  /\ UNCHANGED <<image_list, main_visible, images, interval_ms, timer_remaining>>
  /\ UNCHANGED loop_vars

\* lines 109-111: the repeating timer times out, calls show_next_image and
\* starts its next interval
TimedOut ==
  /\ slideshow # "none" /\ error = "none"
  /\ timer_active /\ timer_remaining = 0
  /\ last_event' = "timeout"
  /\ fired' = <<"show_next_image">>
  /\ index_before' = current_index
  /\ show_next_image
  /\ timer_remaining' = interval_ms
  /\ UNCHANGED <<image_list, main_visible, slideshow, images, interval_ms,
                 timer_active>>

TimerTimeout == TimedOut /\ UNCHANGED loop_vars

\* one second passes while the timer runs
Tocked ==
  /\ slideshow # "none" /\ error = "none"
  /\ timer_active /\ timer_remaining > 0
  /\ timer_remaining' = timer_remaining - MsPerSecond
  /\ since_mutation' = since_mutation + 1
  /\ UNCHANGED <<image_list, main_visible, slideshow, images, interval_ms,
                 current_index, metadata_cache, label, info_label, timer_active,
                 error, last_event, fired, index_before, extract_log, last_call>>

Tock == Tocked /\ UNCHANGED loop_vars

(* ----------------------------- MainWindow ------------------------------ *)
NoWindow ==
  /\ images = <<>> /\ interval_ms = 0 /\ current_index = 0
  /\ metadata_cache = <<>> /\ label = NoPixmap /\ info_label = <<>>
  /\ timer_active = FALSE /\ timer_remaining = 0
  /\ last_event = "none" /\ fired = <<>> /\ index_before = 0
  /\ since_mutation = 0
  /\ extract_log = EmptyLog /\ last_call = NoCall
  /\ trail = <<>> /\ queue = <<>> /\ stack = <<>>

\* faulty variant: the setup window stays usable during the slideshow and
\* the list the window shares is rescanned and shuffled in place
choose_folder_in_place ==
  /\ \E folder \in Folders \ {0} :
       image_list' \in Shuffles(scan_images(folder))
  /\ images' = IF slideshow = "none" THEN images ELSE image_list'
  /\ UNCHANGED <<main_visible, slideshow, interval_ms, current_index,
                 metadata_cache, label, info_label, timer_active,
                 timer_remaining, error, history_vars, loop_vars>>
\* lines 196-202: a cancelled dialog changes nothing; a chosen folder is
\* scanned and the list shuffled
choose_folder ==
  /\ main_visible
  /\ \E cancelled \in BOOLEAN :
       IF cancelled THEN UNCHANGED image_list
       ELSE \E folder \in Folders :
              image_list' \in Shuffles(scan_images(folder))
  /\ UNCHANGED <<main_visible, slideshow, window_vars, error, history_vars,
                 loop_vars>>

\* lines 204-212: with no image the warning box is shown and nothing is
\* constructed
start_slideshow ==
  /\ main_visible /\ slideshow = "none"
  /\ IF image_list = <<>>
     THEN UNCHANGED <<main_visible, slideshow, window_vars, error, history_vars>>
     ELSE /\ main_visible' = FALSE
          /\ \E interval \in Intervals : SlideshowWindow(image_list, interval)
  /\ UNCHANGED <<image_list, loop_vars>>

\* the fields of a deleted window
WindowGone ==
  /\ images' = <<>> /\ interval_ms' = 0 /\ current_index' = 0
  /\ metadata_cache' = <<>> /\ label' = NoPixmap /\ info_label' = <<>>
  /\ timer_active' = FALSE /\ timer_remaining' = 0
  /\ last_event' = "none" /\ fired' = <<>> /\ index_before' = 0
  /\ since_mutation' = 0
  /\ extract_log' = EmptyLog /\ last_call' = NoCall
  /\ trail' = <<>> /\ queue' = <<>> /\ stack' = <<>>

\* the closed window is deleted (WA_DeleteOnClose, line 82); its destroyed
\* signal shows the setup window again (line 211)
Destroyed ==
  /\ slideshow = "closed"
  /\ slideshow' = "none"
  /\ main_visible' = TRUE
  /\ WindowGone
  /\ UNCHANGED <<image_list, error>>

(* --------------------------- specifications ---------------------------- *)
\* the program as started by __main__
Init ==
  /\ image_list = <<>>
  /\ main_visible = TRUE
  /\ slideshow = "none"
  /\ error = "none"
  /\ NoWindow

Next ==
  \/ choose_folder
  \/ start_slideshow
  \/ KeyPress
  \/ MousePress
  \/ TimerTimeout
  \/ Tock
  \/ Destroyed

Spec == Init /\ [][Next]_vars

\* The event loop keeps running: time passes, and a due timeout is delivered.
\* The timer restarting from 0 is what a TimerTimeout step, and no other step
\* of Next, does; it is enabled exactly when TimerTimeout is.
TimerRestart ==
  /\ slideshow # "none" /\ error = "none"
  /\ timer_active /\ timer_remaining = 0
  /\ timer_remaining' = interval_ms

FairSpec == Spec /\ WF_timer_remaining(TimerRestart) /\ WF_vars(Tock)

\* SlideshowWindow on its own: constructed with any list, the empty one
\* included, and then driven by its events
ListArguments == UNION { Shuffles(scan_images(folder)) : folder \in Folders }

InitWindow ==
  /\ image_list \in ListArguments
  /\ main_visible = FALSE
  /\ slideshow = "none"
  /\ error = "none"
  /\ NoWindow

Constructed ==
  /\ ~main_visible /\ slideshow = "none"
  /\ \E interval \in Intervals : SlideshowWindow(image_list, interval)
  /\ UNCHANGED <<image_list, main_visible>>

Construct == Constructed /\ UNCHANGED loop_vars

NextWindow ==
  \/ Construct
  \/ KeyPress
  \/ MousePress
  \/ TimerTimeout
  \/ Tock

SpecWindow == InitWindow /\ [][NextWindow]_vars

\* extract_metadata on its own: one path of the disk, any answer of the
\* geocoder, called again and again on one cache
InitExtract ==
  /\ image_list \in { <<path>> : path \in DiskPaths }
  /\ main_visible = FALSE
  /\ slideshow = "none"
  /\ error = "none"
  /\ NoWindow

Extracted(path, geo, r) ==
  /\ metadata_cache' = r.cache
  /\ last_call' = Call(path, geo, r)
  /\ extract_log' =
       IF r.computed
       THEN [extract_log EXCEPT ![path] = Append(@, LogEntry(Call(path, geo, r)))]
       ELSE extract_log
  /\ error' = IF r.raised THEN "Exception" ELSE error

ExtractCall ==
  /\ error = "none"
  /\ \E geo \in AllGeoOutcomes :
       Extracted(image_list[1], geo,
                 extract_metadata(FileAt(image_list[1]), image_list[1], geo,
                                  metadata_cache))
  /\ fired' = <<"extract_metadata">>
  /\ UNCHANGED <<image_list, main_visible, slideshow, images, interval_ms,
                 current_index, label, info_label, timer_active,
                 timer_remaining, last_event, index_before, since_mutation,
                 loop_vars>>

NextExtract == ExtractCall

SpecExtract == InitExtract /\ [][NextExtract]_vars

\* a slideshow of one file, for every file of the disk
SpecShow == InitExtract /\ [][NextWindow]_vars

\* The cursor observed: a window on a non-empty list, driven by its events,
\* with the cursor recorded after the constructor and after every
\* show_next_image and show_prev_image
TrailLen == NumPaths + 1
Latest(s) ==
  IF Len(s) <= TrailLen THEN s ELSE SubSeq(s, Len(s) - TrailLen + 1, Len(s))
Tracked(method) ==
  trail' = Latest(Append(trail, [method |-> method, index |-> current_index']))

InitCursor ==
  /\ image_list \in ListArguments \ {<<>>}
  /\ main_visible = FALSE
  /\ slideshow = "none"
  /\ error = "none"
  /\ NoWindow

CursorConstruct ==
  /\ Constructed
  /\ Tracked("__init__")
  /\ UNCHANGED <<queue, stack>>

CursorKeyPress ==
  /\ \E key \in Keys :
       /\ KeyPressed(key)
       /\ IF keyPressEvent(key) = "close" THEN UNCHANGED trail
          ELSE Tracked(keyPressEvent(key))
  /\ UNCHANGED <<queue, stack>>

CursorTimeout ==
  /\ TimedOut
  /\ Tracked("show_next_image")
  /\ UNCHANGED <<queue, stack>>

NextCursor ==
  \/ CursorConstruct
  \/ CursorKeyPress
  \/ CursorTimeout
  \/ Tock

SpecCursor == InitCursor /\ [][NextCursor]_vars

\* The event loop observed (app.exec(), line 219): events arrive in a queue,
\* also while a handler runs; the loop dispatches the oldest one when control
\* is back in it, and a handler runs statement by statement
\* a window on a scanned list, its timer at the shortest interval
InitLoop ==
  /\ image_list \in { scan_images(folder) : folder \in Folders \ {0} }
  /\ main_visible = FALSE
  /\ slideshow = "none"
  /\ error = "none"
  /\ NoWindow

LoopConstruct ==
  /\ ~main_visible /\ slideshow = "none"
  /\ SlideshowWindow(image_list, 1)
  /\ UNCHANGED <<image_list, main_visible, loop_vars>>

Posted(event) ==
  /\ Len(queue) < MaxQueue
  /\ queue' = Append(queue, event)

KeyArrives ==
  /\ slideshow = "active" /\ error = "none"
  /\ \E key \in Keys : Posted(key)
  /\ UNCHANGED <<image_list, main_visible, slideshow, window_vars, error,
                 history_vars, trail, stack>>

TimerArrives ==
  /\ slideshow # "none" /\ error = "none"
  /\ timer_active /\ timer_remaining = 0
  /\ Posted("timeout")
  /\ timer_remaining' = interval_ms
  /\ UNCHANGED <<image_list, main_visible, slideshow, images, interval_ms,
                 current_index, metadata_cache, label, info_label, timer_active,
                 error, history_vars, trail, stack>>

\* the method an event's handler calls, and the handler at its first line
Handler(event) ==
  IF event = "timeout" THEN "show_next_image" ELSE keyPressEvent(event)
Frame(event) ==
  [event |-> event, method |-> Handler(event),
   line |-> IF Handler(event) = "close" THEN "close" ELSE "assign"]

\* faulty variant: events are also dispatched from inside a running handler
ReturnedOrBusy(frames) == Len(frames) < 2
\* control is back in the event loop
Returned(frames) == frames = <<>>

\* the loop takes the oldest event; a closed window gets none
Dispatch ==
  /\ error = "none" /\ Returned(stack) /\ queue # <<>>
  /\ queue' = Tail(queue)
  /\ IF slideshow = "active"
     THEN /\ stack' = Append(stack, Frame(Head(queue)))
          /\ last_event' = Head(queue)
          /\ fired' = <<Handler(Head(queue))>>
          /\ index_before' = current_index
     ELSE UNCHANGED <<stack, last_event, fired, index_before>>
  /\ UNCHANGED <<image_list, main_visible, slideshow, window_vars, error,
                 since_mutation, extract_log, last_call, trail>>

Top == stack[Len(stack)]
Pop == SubSeq(stack, 1, Len(stack) - 1)

\* line 138 or 142 of the innermost handler
AssignStep ==
  /\ stack # <<>> /\ Top.line = "assign"
  /\ current_index' =
       IF Top.method = "show_next_image"
       THEN NextIndex(current_index, Len(images))
       ELSE PrevIndex(current_index, Len(images))
  /\ since_mutation' = 0
  /\ stack' = Append(Pop, [Top EXCEPT !.line = "show_image"])
  /\ UNCHANGED <<image_list, main_visible, slideshow, images, interval_ms,
                 metadata_cache, label, info_label, timer_active,
                 timer_remaining, error, last_event, fired, index_before,
                 extract_log, last_call, trail, queue>>

\* line 139 or 143 of the innermost handler, which then returns
ShowStep ==
  /\ stack # <<>> /\ Top.line = "show_image"
  /\ \E geo \in GeoOutcomes :
       Shown(show_image(images, current_index, metadata_cache, label,
                        info_label, geo))
  /\ stack' = Pop
  /\ UNCHANGED <<image_list, main_visible, slideshow, images, interval_ms,
                 current_index, timer_active, timer_remaining, last_event,
                 fired, index_before, since_mutation, trail, queue>>

\* line 152 of the innermost handler, which then returns
CloseStep ==
  /\ stack # <<>> /\ Top.line = "close"
  /\ close
  /\ stack' = Pop
  /\ UNCHANGED <<image_list, main_visible, images, interval_ms,
                 timer_remaining, last_event, fired, index_before, trail, queue>>

NextLoop ==
  \/ LoopConstruct
  \/ KeyArrives
  \/ TimerArrives
  \/ Tock
  \/ Dispatch
  \/ AssignStep
  \/ ShowStep
  \/ CloseStep

SpecLoop == InitLoop /\ [][NextLoop]_vars

(* ------------------------------ properties ----------------------------- *)
\* the path at the cursor
Current == Item(images, current_index)
\* "2021-06-01", the capture date of DateTag
IsoDate == <<"2","0","2","1","-","0","6","-","0","1">>
ExitEvents == (Keys \ {"Key_Right", "Key_Left"}) \cup {"mouse"}

\* C1: while a slideshow window exists, either the list is non-empty and
\* 0 <= current_index < len(images), or the list is empty and nothing has
\* been displayed.
C1_CursorValid ==
  slideshow # "none" =>
    \/ images # <<>> /\ current_index \in 0..(Len(images) - 1)
    \/ images = <<>> /\ label = NoPixmap

\* Previous pressed at index 0 of the longest list: the cursor wrapped to the
\* last index
C1_Witness ==
  /\ slideshow = "active" /\ last_event = "Key_Left"
  /\ Len(images) = NumPaths /\ current_index = NumPaths - 1

\* C2: with an empty list, the timer tick, Next and Previous change nothing:
\* the cursor stays, no exception leaves the handler, nothing is displayed.
C2_EmptyNoOp ==
  (slideshow # "none" /\ images = <<>>) =>
    /\ current_index = 0
    /\ error = "none"
    /\ label = NoPixmap

\* C3: the next timeout comes no earlier than one full interval after the
\* last assignment of the cursor (by the timer or by a key).
C3_TimerReset ==
  (slideshow = "active" /\ timer_active) =>
    timer_remaining + since_mutation * MsPerSecond >= interval_ms

\* C4: in one session the extraction work is done at most once per path, and
\* every request for a path returns the record its first request returned.
C4_ExtractOnce ==
  /\ \A p \in DiskPaths : Len(extract_log[p]) <= 1
  /\ last_call.path # NoPixmap =>
       /\ extract_log[last_call.path] # <<>>
       /\ last_call.ret = extract_log[last_call.path][1].ret

\* the timer wrapped the slideshow around to an image already extracted
C4_Witness ==
  /\ last_event = "timeout"
  /\ last_call.path # NoPixmap /\ ~last_call.computed
  /\ Cardinality(DOMAIN metadata_cache) > 1

\* C5: during a session no cache entry is removed or changed.
C5_WriteOnce ==
  [][(slideshow # "none" /\ slideshow' # "none") =>
       \A p \in DOMAIN metadata_cache :
         /\ p \in DOMAIN metadata_cache'
         /\ metadata_cache'[p] = metadata_cache[p]]_vars

\* the record of a failed geocoder call was requested again, and is there
C5_Witness ==
  /\ last_call.path # NoPixmap /\ ~last_call.computed
  /\ extract_log[last_call.path][1].geo = GeoRaise
  /\ last_call.path \in DOMAIN metadata_cache

\* C6: once the window is closed, as long as it exists the cursor does not
\* change and no further event (timer tick included) is handled.
C6_ExitTerminal ==
  [][slideshow = "closed" =>
       \/ slideshow' = "none"
       \/ UNCHANGED <<current_index, last_event, fired, label, info_label>>]_vars

\* closed at the very second a timeout was due
C6_Witness ==
  /\ slideshow = "closed" /\ last_event \in ExitEvents
  /\ timer_remaining = 0 /\ ~timer_active

\* C7: every event runs exactly one method: the timer and Key_Right run
\* show_next_image, Key_Left runs show_prev_image, every other key and every
\* pointer press runs close, which leaves the cursor alone.
C7_Dispatch ==
  (slideshow # "none" /\ images # <<>>) =>
    /\ last_event \in {"timeout", "Key_Right"} =>
         /\ fired = <<"show_next_image">>
         /\ current_index = (index_before + 1) % Len(images)
    /\ last_event = "Key_Left" =>
         /\ fired = <<"show_prev_image">>
         /\ current_index = (index_before - 1) % Len(images)
    /\ last_event \in ExitEvents =>
         /\ fired = <<"close">>
         /\ slideshow = "closed"
         /\ current_index = index_before

\* a key other than the arrows closed the window away from index 0
C7_Witness ==
  /\ last_event = "Key_Space" /\ slideshow = "closed" /\ current_index > 0

ZeroDenPhoto == File(TRUE, TRUE, DateAndGps(DateTag, GpsZeroDen))

\* C8: extract_metadata never raises; it returns a pair of strings and that
\* pair is the cache entry of the path.
C8_NeverRaises ==
  /\ error = "none"
  /\ last_call.path # NoPixmap =>
       /\ ~last_call.raised
       /\ Len(last_call.ret) = 2
       /\ last_call.path \in DOMAIN metadata_cache
       /\ metadata_cache[last_call.path] = last_call.ret

\* the photo with a zero denominator in its latitude was extracted: the date
\* is kept, the place is empty
C8_Witness ==
  /\ last_call.path # NoPixmap /\ last_call.computed
  /\ FileAt(last_call.path) = ZeroDenPhoto
  /\ last_call.ret = <<IsoDate, <<>>>>

HasDate(path) ==
  /\ FileAt(path).open_ok /\ ~FileAt(path).exif.none
  /\ "DateTimeOriginal" \in DOMAIN FileAt(path).exif.tags
  /\ FileAt(path).exif.tags["DateTimeOriginal"] = DateTag

\* C9: when the geocoder raised or returned nothing for a dated image, the
\* record is (date, ''), and the show_image that looked it up displayed the
\* image with the date alone.
C9_GeocoderFailure ==
  \A p \in DiskPaths :
    (/\ extract_log[p] # <<>>
     /\ extract_log[p][1].geo \in {GeoRaise, GeoNone}
     /\ HasDate(p)) =>
       /\ extract_log[p][1].ret = <<IsoDate, <<>>>>
       /\ p \in DOMAIN metadata_cache /\ metadata_cache[p] = <<IsoDate, <<>>>>
       /\ (slideshow = "active" /\ last_call.path = p) =>
            label = p /\ info_label = IsoDate

\* the geocoder raised during the extraction just made for the shown image
C9_Witness ==
  /\ slideshow = "active" /\ last_call.path # NoPixmap /\ last_call.computed
  /\ last_call.geo = GeoRaise /\ HasDate(last_call.path)
  /\ label = last_call.path /\ info_label = IsoDate

\* the text for the record extracted for a path
AnnotationOf(path) ==
  IF extract_log[path] = <<>> THEN <<>> ELSE InfoText(extract_log[path][1].ret)

\* C10 as stated: after the initial display and every tick, Next or Previous
\* the surface shows images[current_index] with its annotation, also when the
\* image cannot be read.
C10_ShowsCurrent ==
  (slideshow = "active" /\ images # <<>>) =>
    label = Current /\ info_label = AnnotationOf(Current)

\* C10 amended: the same for every image QPixmap can load; for an image it
\* cannot load nothing is delivered and the surface keeps what it showed.
C10_ShowsLoadable ==
  /\ []((slideshow = "active" /\ images # <<>> /\ FileAt(Current).pixmap_ok) =>
          /\ label = Current
          /\ extract_log[Current] # <<>>
          /\ info_label = AnnotationOf(Current))
  /\ [][(slideshow' = "active" /\ images' # <<>> /\ ~FileAt(Current').pixmap_ok) =>
          IF slideshow = "active"
          THEN label' = label /\ info_label' = info_label
          ELSE label' = NoPixmap /\ info_label' = <<>>]_vars

\* a tick moved from the dated, geotagged photo to the image without
\* metadata: it is shown with an empty text
C10_Witness ==
  /\ slideshow = "active" /\ last_event = "timeout"
  /\ FileAt(Current) = PlainImage
  /\ label = Current /\ info_label = <<>>
  /\ \E p \in DOMAIN metadata_cache : metadata_cache[p][1] = IsoDate

\* C11: show_next_image followed by show_prev_image leaves the cursor where
\* it was, and so does show_prev_image followed by show_next_image, for every
\* list of length >= 1 and every cursor, the wrap positions included.
C11_RoundTrip ==
  \A k \in 2..(Len(trail) - 1) :
    {trail[k].method, trail[k + 1].method}
        = {"show_next_image", "show_prev_image"} =>
      trail[k + 1].index = trail[k - 1].index

\* on the longest list, Next at the last index wrapped to 0 and Previous
\* wrapped back
C11_Witness ==
  /\ Len(images) = NumPaths
  /\ \E k \in 2..(Len(trail) - 1) :
       /\ trail[k - 1].index = NumPaths - 1
       /\ trail[k].method = "show_next_image" /\ trail[k].index = 0
       /\ trail[k + 1].method = "show_prev_image"
       /\ trail[k + 1].index = NumPaths - 1

\* the trail ends with as many show_next_image calls as the list is long
FullTurn ==
  /\ images # <<>> /\ Len(trail) > Len(images)
  /\ \A j \in 1..Len(images) :
       trail[Len(trail) - Len(images) + j].method = "show_next_image"

\* C12: len(images) calls of show_next_image in a row bring the cursor back
\* to where it started, having made every index current exactly once.
C12_Wraparound ==
  FullTurn =>
    /\ trail[Len(trail)].index = trail[Len(trail) - Len(images)].index
    /\ \A i \in 0..(Len(images) - 1) :
         Cardinality({j \in 1..Len(images) :
                        trail[Len(trail) - Len(images) + j].index = i}) = 1

\* a full turn of the longest list that began where a Previous had left the
\* cursor, away from index 0
C12_Witness ==
  /\ FullTurn /\ Len(images) = NumPaths
  /\ trail[1].method = "show_prev_image" /\ trail[1].index # 0

\* the cursor a method leaves, given the cursor it finds
After(method, idx) ==
  IF method = "show_next_image" THEN NextIndex(idx, Len(images))
  ELSE PrevIndex(idx, Len(images))

\* C13: the handlers of timer and key events run one at a time, in the order
\* the events arrived: none starts while another is between its first and
\* last statement, and the cursor a handler leaves is the one its method
\* computes from the cursor it found (no update is lost).
C13_Serial ==
  /\ [](/\ Len(stack) <= 1
        /\ (slideshow = "active" /\ last_event \in Keys \cup {"timeout"}) =>
             current_index =
               IF \/ Handler(last_event) = "close"
                  \/ stack # <<>> /\ stack[1].line = "assign"
               THEN index_before
               ELSE After(Handler(last_event), index_before))
  /\ [][Len(stack') > Len(stack) =>
          /\ stack = <<>> /\ queue # <<>>
          /\ stack'[1].event = Head(queue)
          /\ queue' = Tail(queue)]_vars

\* a tick and a Previous both arrived while a Next was between its
\* assignment and its show_image
C13_Witness ==
  /\ Len(stack) = 1 /\ stack[1].event = "Key_Right"
  /\ stack[1].line = "show_image"
  /\ queue = <<"timeout", "Key_Left">>

\* C14: the text shown with an image is its capture date and its place, in
\* that order, with one " | " between them when both are there; the one that
\* is there, alone, when the other is empty; and empty when both are.
C14_DisplayString ==
  (slideshow = "active" /\ label \in DOMAIN metadata_cache) =>
    info_label =
      IF metadata_cache[label][1] # <<>> /\ metadata_cache[label][2] # <<>>
      THEN metadata_cache[label][1] \o BarSep \o metadata_cache[label][2]
      ELSE IF metadata_cache[label][1] # <<>> THEN metadata_cache[label][1]
      ELSE metadata_cache[label][2]

\* a geotagged image without a capture date is shown with its place alone
C14_Witness ==
  /\ slideshow = "active" /\ label \in DOMAIN metadata_cache
  /\ metadata_cache[label][1] = <<>>
  /\ metadata_cache[label][2] = Paris \o CommaSpace \o France
  /\ info_label = Paris \o CommaSpace \o France

\* the value under a key of an address, '' when the key is missing
Part(addr, key) == IF key \in DOMAIN addr THEN addr[key] ELSE <<>>
\* city, else town, else village, else nothing
Locality(addr) ==
  IF Part(addr, "city") # <<>> THEN Part(addr, "city")
  ELSE IF Part(addr, "town") # <<>> THEN Part(addr, "town")
  ELSE Part(addr, "village")

\* C15: when the geocoder returned an address, the place of the record is
\* the locality (city, else town, else village) and the country with ", "
\* between them when both are there, the one that is there when only one is,
\* and empty when neither is.
C15_Place ==
  \A p \in DiskPaths :
    (/\ extract_log[p] # <<>>
     /\ extract_log[p][1].geo.kind = "loc"
     /\ "address" \in DOMAIN extract_log[p][1].geo.raw) =>
       extract_log[p][1].ret[2] =
         IF /\ Locality(extract_log[p][1].geo.raw["address"]) # <<>>
            /\ Part(extract_log[p][1].geo.raw["address"], "country") # <<>>
         THEN Locality(extract_log[p][1].geo.raw["address"]) \o CommaSpace
                \o Part(extract_log[p][1].geo.raw["address"], "country")
         ELSE IF Locality(extract_log[p][1].geo.raw["address"]) # <<>>
         THEN Locality(extract_log[p][1].geo.raw["address"])
         ELSE Part(extract_log[p][1].geo.raw["address"], "country")

\* an address with an empty city, a town, a village and a country gave the
\* town and the country
C15_Witness ==
  \E p \in DiskPaths :
    /\ extract_log[p] # <<>>
    /\ extract_log[p][1].geo.kind = "loc"
    /\ "address" \in DOMAIN extract_log[p][1].geo.raw
    /\ DOMAIN extract_log[p][1].geo.raw["address"]
         = {"city", "town", "village", "country"}
    /\ extract_log[p][1].ret[2] = Giverny \o CommaSpace \o France

\* x = d + m/60 + s/3600 for the fraction x and the rationals d, m, s of a
\* coordinate, negated for the hemispheres S and W
IsDecimalOf(x, coord, ref) ==
  /\ x[2] > 0
  /\ x[1] * coord[1][2] * coord[2][2] * coord[3][2] * 3600
       = (IF ref \in {"S", "W"} THEN 0 - 1 ELSE 1) * x[2]
         * ( coord[1][1] * coord[2][2] * coord[3][2] * 3600
           + coord[2][1] * coord[1][2] * coord[3][2] * 60
           + coord[3][1] * coord[1][2] * coord[2][2] )

GpsOf(path) == FileAt(path).exif.tags["GPSInfo"]

\* C16: the coordinate handed to the geocoder is, for latitude and longitude
\* alike, degrees + minutes/60 + seconds/3600 of the GPS tag, negated when
\* its reference is S or W.
C16_Conversion ==
  \A p \in DiskPaths :
    (extract_log[p] # <<>> /\ extract_log[p][1].query # Nothing) =>
      /\ IsDecimalOf(extract_log[p][1].query[1], GpsOf(p)[2], GpsOf(p)[1])
      /\ IsDecimalOf(extract_log[p][1].query[2], GpsOf(p)[4], GpsOf(p)[3])

\* (40, 0, 0, S) gave -40 and (0, 30, 0, W) gave -1/2, and the same
\* coordinate north-east gives 40 and 1/2
C16_Witness ==
  /\ \E p \in DiskPaths :
       /\ extract_log[p] # <<>>
       /\ extract_log[p][1].query = << <<0 - 40, 1>>, <<0 - 1, 2>> >>
       /\ GpsOf(p) = GpsWholeSouthWest
  /\ Convert(GpsWhole[2], GpsWhole[1]).val = Float(<<40, 1>>)
  /\ Convert(GpsWhole[4], "N").val = Float(<<1, 2>>)

\* the file at the path opens, its date tag (if any) is a str, and its GPS
\* group holds latitude and longitude with their references and non-zero
\* denominators: both conversions are made and succeed
Convertible(path) ==
  /\ FileAt(path).open_ok /\ ~FileAt(path).exif.none
  /\ "GPSInfo" \in DOMAIN FileAt(path).exif.tags
  /\ "DateTimeOriginal" \in DOMAIN FileAt(path).exif.tags =>
       FileAt(path).exif.tags["DateTimeOriginal"].type = "str"
  /\ {1, 2, 3, 4} \subseteq DOMAIN GpsOf(path)
  /\ \A c \in {2, 4} : \A i \in 1..3 : GpsOf(path)[c][i][2] # 0

\* C17: the first extraction of an image whose latitude and longitude both
\* convert calls the geocoder with the converted coordinate, whatever its
\* value, 0 included.
C17_GeocoderCalled ==
  \A p \in DiskPaths :
    (extract_log[p] # <<>> /\ Convertible(p)) =>
      /\ extract_log[p][1].query # Nothing
      /\ IsDecimalOf(extract_log[p][1].query[1], GpsOf(p)[2], GpsOf(p)[1])
      /\ IsDecimalOf(extract_log[p][1].query[2], GpsOf(p)[4], GpsOf(p)[3])

\* the file carries a DateTimeOriginal tag that is not a date
BadDate(path) ==
  /\ FileAt(path).open_ok /\ ~FileAt(path).exif.none
  /\ "DateTimeOriginal" \in DOMAIN FileAt(path).exif.tags
  /\ FileAt(path).exif.tags["DateTimeOriginal"] # DateTag
\* the same file with a valid date tag
WithValidDate(file) ==
  [file EXCEPT !.exif.tags = ("DateTimeOriginal" :> DateTag) @@ @]

\* C18: for a file whose date tag is not a date the record has no capture
\* date, and its place is the one the same file with a valid date tag gets
\* from the same geocoder.
C18_DateIndependent ==
  \A p \in DiskPaths :
    (extract_log[p] # <<>> /\ BadDate(p)) =>
      /\ extract_log[p][1].ret[1] = <<>>
      /\ \A geo \in AllGeoOutcomes :
           extract_log[p][1].geo \in {geo, Uncalled} =>
             extract_log[p][1].ret[2] =
               ExceptPass(TryBody(WithValidDate(FileAt(p)), geo)).location_str

\* C19: while the slideshow window exists no event changes the list it was
\* given (neither its elements nor their order) or its interval.
C19_Frame ==
  [][(slideshow # "none" /\ slideshow' # "none") =>
       /\ images' = images
       /\ image_list' = image_list
       /\ interval_ms' = interval_ms]_vars

\* the timer has wrapped a shuffled list of full length around, at the
\* longest interval: list and interval are as the session began with
C19_Witness ==
  /\ slideshow = "active" /\ last_event = "timeout" /\ current_index = 0
  /\ images = image_list /\ Len(images) = NumPaths
  /\ images # scan_images(NumPaths)
  /\ interval_ms = MaxInterval * MsPerSecond
  /\ Cardinality(DOMAIN metadata_cache) > 1

\* from some point on the session goes on and its only events are ticks
TicksOnly == slideshow = "active" /\ last_event \in {"start", "timeout"}
\* the cursor is at index i of the list
CurrentIs(i) == i < Len(images) /\ current_index = i
\* the surface shows the image at the cursor with its annotation
Displayed ==
  /\ label = Current
  /\ Current \in DOMAIN metadata_cache
  /\ info_label = InfoText(metadata_cache[Current])

\* C20 as stated: whatever extraction and geocoding yield, while the timer
\* fires and nobody exits, every index is again and again the cursor with its
\* image displayed.
C20_EveryImageShown ==
  \A i \in 0..(NumPaths - 1) :
    <>[]TicksOnly => []<>(i < Len(images) => CurrentIs(i) /\ Displayed)

\* C20 amended: every tick advances the cursor by one, every index is again
\* and again the cursor, and then its image is displayed if QPixmap can load
\* it.
C20_EveryIndexCurrent ==
  /\ [][(slideshow = "active" /\ timer_remaining = 0
          /\ timer_remaining' = interval_ms) =>
         current_index' = (current_index + 1) % Len(images)]_vars
  /\ \A i \in 0..(NumPaths - 1) :
       <>[]TicksOnly =>
         []<>(i < Len(images) =>
                /\ CurrentIs(i)
                /\ FileAt(Current).pixmap_ok => Displayed)

\* the timer alone has taken the longest list, with its unloadable file,
\* round to index 0 although the geocoder raised on the way
C20_Witness ==
  /\ slideshow = "active" /\ last_event = "timeout" /\ index_before > 0
  /\ Len(images) = NumPaths /\ current_index = 0 /\ Displayed
  /\ \E p \in DOMAIN metadata_cache : extract_log[p][1].geo = GeoRaise
  /\ \E i \in 1..Len(images) : ~FileAt(images[i]).pixmap_ok

====
